---- MODULE Spec2Model ----
(***************************************************************************)
(* The bistro-boss server: the settlement route (POST /payments), the      *)
(* payment-intent route (POST /create-checkout-session), the cart routes   *)
(* and the admin statistics route, over the shared MongoDB collections.    *)
(*                                                                         *)
(* The repository holds three revisions of the same server                 *)
(* (src/unnamed/part_000, src/index.js, src/unnamed/part_001).  The        *)
(* variable rev says which revision is deployed; every handler is          *)
(* translated per revision.                                                *)
(*                                                                         *)
(* An async handler gives up control at every await.  One action is one    *)
(* store (or adapter) operation together with the synchronous code that    *)
(* follows it up to the next await; the synchronous code before the first  *)
(* await is part of the first action.                                      *)
(*                                                                         *)
(* Amounts of money are integers counted in thousandths of a major unit    *)
(* (12.345 is 12345), so price * 100 is a whole number of tenths of a      *)
(* minor unit.                                                             *)
(***************************************************************************)
EXTENDS Integers, Sequences, FiniteSets, TLC

\* ---------------------------------------------------------------- bounds
MaxRequests == 2          \* requests received over a run of Spec
MaxCheckoutRequests == 2  \* requests received over a run of SpecCheckout
MaxStatsRequests == 3     \* requests received over a run of SpecStats
MaxOrdersRequests == 3    \* requests received over a run of SpecOrders
MaxAuthRequests == 3      \* requests received over a run of SpecAuth

\* ---------------------------------------------------------------- inputs
Revisions == {"part_000", "index", "part_001"}

\* A cart identifier in a request: k >= 1 is the 24-hex-digit string of
\* ObjectId k, 0 is a string that is no ObjectId ("xyz").  No cart entry
\* ever has ObjectId 3.
CartIdLists == {<< >>, <<1>>, <<1, 1>>, <<1, 2>>, <<1, 3>>, <<1, 0>>}
\* typeof body.cartIds: absent, a string, or an array
CartIdsTypes == {"missing", "string", "array"}
\* Prices (0.5, 12.344, 12.345) whose product with 100 in IEEE doubles is
\* the exact product, so that integer arithmetic on thousandths computes
\* what Math.round and parseInt are given.  (It is not for every price:
\* 1.005 * 100 is 100.49999999999999.)
SettlePrices == {500, 12345}
CheckoutPrices == {500, 12344, 12345}
MenuItemLists == {<<1>>, <<1, 2>>}
PathIds == {0, 1, 2}
InitialCarts == {[_id |-> 1, menuId |-> 1], [_id |-> 2, menuId |-> 2]}
\* the Authorization header: absent, a token that fails jwt.verify, or a
\* token signed for an email
Credentials == {"none", "bad", "admin@bistro", "user@bistro"}
\* and a token signed for an email that no stored user has
AuthCredentials == Credentials \cup {"ghost@bistro"}

\* A menu item's identifier in a request (body.menuItems, the path of
\* DELETE /menu/:id) is a string; k is the 24-hex-digit string of number
\* k.  A stored menu document is keyed by that string itself (oid FALSE:
\* the _id came with the document) or by the ObjectId the string denotes
\* (oid TRUE: insertOne made the _id).  The two never compare equal.
Catalog ==
    {[_id |-> 1, oid |-> FALSE, category |-> "Salad", price |-> 10000],
     [_id |-> 2, oid |-> FALSE, category |-> "Dessert", price |-> 5000],
     [_id |-> 3, oid |-> TRUE, category |-> "Salad", price |-> 7000]}
OrderItemLists == {<<1, 2>>, <<1, 1>>, <<2, 3>>}

VARIABLES rev,                \* the deployed revision
          usersCollection,    \* db "bistroDb", collection "users"
          menuCollection,     \* collection "menu"
          menusCollection,    \* collection "menus"
          cartCollection,     \* collection "carts"
          paymentCollection,  \* collection "payments", in insertion order
          stripeIntents,      \* amounts of the payment intents Stripe created
          reqs                \* the requests received, in order of arrival

vars == <<rev, usersCollection, menuCollection, menusCollection,
          cartCollection, paymentCollection, stripeIntents, reqs>>

store == <<usersCollection, menuCollection, menusCollection, cartCollection,
           paymentCollection>>

\* the collection behind the handle menuCollection, which the menu routes
\* and the product count use: "menus" in index.js, "menu" in the others
MenuCatalog == IF rev = "index" THEN menusCollection ELSE menuCollection

\* ---------------------------------------------------------------- helpers
\* mutant of SumPrice: the callback drops the running total
SumPriceLast(payments, total) ==
    IF payments = << >> THEN total ELSE payments[Len(payments)].price

RECURSIVE SumPrice(_, _)
\* payments.reduce((total, payment) => total + payment.price, 0)
SumPrice(payments, total) ==
    IF payments = << >> THEN total
    ELSE SumPrice(Tail(payments), total + Head(payments).price)

Range(s) == {s[i] : i \in DOMAIN s}

\* new ObjectId(id) accepts a 24-hex-digit string and throws on any other
\* string
ObjectIdThrows(id) == id < 1

\* payment.cartIds.map((id) => new ObjectId(id)): the set the $in matches
MapObjectIds(cartIds) == Range(cartIds)

\* jwt.verify succeeds exactly on a token signed with the secret
VerifyTokenPasses(cred) == cred \notin {"none", "bad"}

VerifyAdminAnyUser(users, email) == \E u \in users : u.email = email

\* verifyAdmin: usersCollection.findOne({email}) has role "admin"
VerifyAdminPasses(users, email) ==
    \E u \in users : u.email = email /\ u.role = "admin"

\* the guard at the top of POST /payments; part_001 has none
ValidationRejects(r, cartIdsType, cartIds) ==
    CASE r = "part_000" -> cartIdsType # "array" \/ Len(cartIds) = 0
      [] r = "index" -> cartIdsType # "array" \/ Len(cartIds) = 0
      [] r = "part_001" -> FALSE

\* does the route wrap its awaits in try/catch (answering 500)?  Without
\* it the rejection is unhandled and the request gets no response.
Catches(r, route) ==
    CASE route = "payments" -> r \in {"part_000", "index"}
      [] route = "checkout" -> r = "part_000"
      [] route = "deleteCart" -> r = "part_000"
      [] route = "deleteMenu" -> r = "part_000"
      [] OTHER -> FALSE

\* the amount handed to stripe.paymentIntents.create for price (in
\* thousandths): Math.round(price * 100) or parseInt(price * 100)
MinorUnits(r, price) ==
    CASE r = "part_000" -> (price + 5) \div 10
      [] r = "index" -> price \div 10
      [] r = "part_001" -> price \div 10

\* mutants of InsertOne: the insert is lost; the document is stored twice;
\* a document equal to a stored one is not stored again
InsertOneLost(payments, doc, id) == payments

InsertOneTwice(payments, doc, id) ==
    Append(Append(payments, [doc EXCEPT !._id = id]), [doc EXCEPT !._id = id])

InsertOneUnique(payments, doc, id) ==
    IF \E k \in DOMAIN payments :
          [payments[k] EXCEPT !._id = 0] = [doc EXCEPT !._id = 0]
    THEN payments
    ELSE Append(payments, [doc EXCEPT !._id = id])

\* paymentCollection.insertOne(payment): the driver gives the document a
\* fresh _id and appends it
InsertOne(payments, doc, id) ==
    Append(payments, [doc EXCEPT !._id = id])

\* mutant of Matched: the filter stops at the first document it matches
MatchedFirst(carts, oids) ==
    {c \in carts : c._id \in oids
                   /\ \A d \in carts : d._id \in oids => c._id <= d._id}

\* the documents the filter {_id: {$in: oids}} (or {_id: oid}) matches
Matched(carts, oids) == {c \in carts : c._id \in oids}

\* mutant of DeleteMany: the filter is lost and every entry is deleted
DeleteManyAll(carts, oids) == {}

\* cartCollection.deleteMany(query) / deleteOne(query): the collection left
DeleteMany(carts, oids) == carts \ Matched(carts, oids)

\* mutant of DeletedCount: the identifiers asked for, not the entries found
DeletedCountAsked(carts, oids) == Cardinality(oids)

\* deleteResult.deletedCount
DeletedCount(carts, oids) == Cardinality(Matched(carts, oids))

\* mutant of EstimatedDocumentCount: the count is never taken
EstimatedDocumentCountNone(coll) == 0

\* paymentCollection.estimatedDocumentCount(), taken as exact
EstimatedDocumentCount(coll) == Len(coll)

\* ---------------------------------------------------------------- aggregation
\* $lookup {from: "menu", localField: "menuItems", foreignField: "_id"}:
\* the documents of "menu" whose _id equals an element of the record's
\* menuItems array, each document once.  The elements are strings.
Lookup(payment, foreign) ==
    {m \in foreign : ~m.oid /\ m._id \in Range(payment.menuItems)}

\* $unwind "$menuItems": one row per looked-up document of each record
Unwind(payments, foreign) ==
    UNION {{[record |-> k, item |-> m] : m \in Lookup(payments[k], foreign)} :
           k \in DOMAIN payments}

RECURSIVE SumItemPrice(_)
\* {$sum: "$menuItems.price"} over the rows of a group
SumItemPrice(rows) ==
    IF rows = {} THEN 0
    ELSE LET r == CHOOSE x \in rows : TRUE
         IN  r.item.price + SumItemPrice(rows \ {r})

\* $group by "$menuItems.category" with {$sum: 1} and the $project
Group(rows) ==
    {[category |-> c,
      quantity |-> Cardinality({r \in rows : r.item.category = c}),
      revenue |-> SumItemPrice({r \in rows : r.item.category = c})] :
     c \in {r.item.category : r \in rows}}

\* paymentCollection.aggregate([...]).toArray()
Aggregate(payments, foreign) == Group(Unwind(payments, foreign))

\* ---------------------------------------------------------------- requests
NoBody ==
    [price |-> 0, cartIdsType |-> "missing", cartIds |-> << >>,
     menuItems |-> << >>, id |-> 0]

NewReq(kind, cred, body) ==
    [kind |-> kind, cred |-> cred, body |-> body, pc |-> "done",
     status |-> 0, fault |-> "none",
     after |-> {i \in DOMAIN reqs : reqs[i].pc \in {"done", "hung"}},
     insertedId |-> 0, deletedCount |-> 0, amount |-> 0,
     pending |-> {}, users |-> 0, products |-> 0, orders |-> 0,
     revenue |-> 0, roleLookup |-> FALSE, stats |-> {}]

\* a rejected await or a throw inside the handler: 500 from the catch
\* block, or (no catch) an unhandled rejection and no response at all
Failed(req, route) ==
    IF Catches(rev, route)
    THEN [req EXCEPT !.pc = "done", !.status = 500]
    ELSE [req EXCEPT !.pc = "hung"]

Responded(req, status) == [req EXCEPT !.pc = "done", !.status = status]

\* The collections live in the database and outlast the server: a run
\* starts with any of the cart entries already stored.
InitMenu(carts, menuOfIndex) ==
    /\ rev \in Revisions
    /\ usersCollection = {[email |-> "admin@bistro", role |-> "admin"],
                          [email |-> "user@bistro", role |-> "user"]}
    /\ menuCollection = IF rev = "index" THEN menuOfIndex ELSE Catalog
    /\ menusCollection = IF rev = "index" THEN Catalog ELSE {}
    /\ cartCollection = carts
    /\ paymentCollection = << >>
    /\ stripeIntents = << >>
    /\ reqs = << >>

\* index.js keeps its catalog in "menus" and never writes "menu"
InitWith(carts) == InitMenu(carts, {})

Init == \E carts \in SUBSET InitialCarts : InitWith(carts)

\* under index.js the collection "menu" is empty or holds what an earlier
\* revision left in it
InitOrders == \E menuOfIndex \in {{}, Catalog} : InitMenu({}, menuOfIndex)

\* ---------------------------------------------------------------- POST /payments
\* the code from the start of the handler to the await of deleteMany:
\* the guard, insertOne, and the mapping of cartIds to ObjectIds
PaymentsPost(price, cartIdsType, cartIds, menuItems, ok) ==
    LET body == [NoBody EXCEPT !.price = price, !.cartIdsType = cartIdsType,
                               !.cartIds = cartIds, !.menuItems = menuItems]
        req == NewReq("payments", "none", body)
        id == Len(paymentCollection) + 1
        doc == [_id |-> 0, price |-> price, cartIdsType |-> cartIdsType,
                cartIds |-> cartIds, menuItems |-> menuItems]
        inserted == [req EXCEPT !.insertedId = id]
    IN  /\ cartIdsType = "array" \/ cartIds = << >>
        /\ IF ValidationRejects(rev, cartIdsType, cartIds)
           THEN /\ reqs' = Append(reqs, Responded(req, 400))
                /\ UNCHANGED paymentCollection
           ELSE IF ~ok
           THEN /\ reqs' = Append(reqs,
                               Failed([req EXCEPT !.fault = "insert"], "payments"))
                /\ UNCHANGED paymentCollection
           ELSE /\ paymentCollection' = InsertOne(paymentCollection, doc, id)
                /\ reqs' = Append(reqs,
                      IF cartIdsType # "array"
                         \/ \E k \in Range(cartIds) : ObjectIdThrows(k)
                      THEN Failed(inserted, "payments")
                      ELSE [inserted EXCEPT !.pc = "delete"])
        /\ UNCHANGED <<rev, usersCollection, menuCollection, menusCollection,
                       cartCollection, stripeIntents>>

\* the await of deleteMany and the response
PaymentsDelete(i, ok) ==
    LET req == reqs[i]
        oids == MapObjectIds(req.body.cartIds)
    IN  /\ req.kind = "payments" /\ req.pc = "delete"
        /\ IF ok
           THEN /\ cartCollection' = DeleteMany(cartCollection, oids)
                /\ reqs' = [reqs EXCEPT ![i] =
                      Responded([req EXCEPT
                          !.deletedCount = DeletedCount(cartCollection, oids)],
                          200)]
           ELSE /\ UNCHANGED cartCollection
                /\ reqs' = [reqs EXCEPT ![i] =
                      Failed([req EXCEPT !.fault = "delete"], "payments")]
        /\ UNCHANGED <<rev, usersCollection, menuCollection, menusCollection,
                       paymentCollection, stripeIntents>>

\* ---------------------------------------------------------------- DELETE /carts/:id
DeleteCart(id) ==
    LET body == [NoBody EXCEPT !.id = id]
        req == NewReq("deleteCart", "none", body)
    IN  /\ IF ObjectIdThrows(id)
           THEN /\ reqs' = Append(reqs, Failed(req, "deleteCart"))
                /\ UNCHANGED cartCollection
           ELSE /\ cartCollection' = DeleteMany(cartCollection, {id})
                /\ reqs' = Append(reqs,
                      Responded([req EXCEPT
                          !.deletedCount = DeletedCount(cartCollection, {id})],
                          200))
        /\ UNCHANGED <<rev, usersCollection, menuCollection, menusCollection,
                       paymentCollection, stripeIntents>>

\* ---------------------------------------------------------------- POST /create-checkout-session
CreateCheckoutSession(cred, price, ok) ==
    LET body == [NoBody EXCEPT !.price = price]
        req == NewReq("checkout", cred, body)
        amount == MinorUnits(rev, price)
    IN  /\ IF ~VerifyTokenPasses(cred)
           THEN /\ reqs' = Append(reqs, Responded(req, 401))
                /\ UNCHANGED stripeIntents
           ELSE IF ~ok
           THEN /\ reqs' = Append(reqs,
                      Failed([req EXCEPT !.fault = "adapter",
                                         !.amount = amount], "checkout"))
                /\ UNCHANGED stripeIntents
           ELSE /\ stripeIntents' = Append(stripeIntents, amount)
                /\ reqs' = Append(reqs,
                      Responded([req EXCEPT !.amount = amount], 200))
        /\ UNCHANGED <<rev, usersCollection, menuCollection, menusCollection,
                       cartCollection, paymentCollection>>

\* ---------------------------------------------------------------- GET /admin-stats
\* the order in which the three estimatedDocumentCount calls reach the
\* store: awaited one after the other, or (part_000) issued together by
\* Promise.all
CountEnabled(r, pending, which) ==
    /\ which \in pending
    /\ \/ r = "part_000"
       \/ which = "users"
       \/ which = "products" /\ "users" \notin pending
       \/ which = "orders" /\ pending = {"orders"}

\* verifyToken, then verifyAdmin's findOne on the users collection
AdminStatsGet(cred) ==
    LET req == NewReq("adminStats", cred, NoBody)
    IN  /\ reqs' = Append(reqs,
              IF ~VerifyTokenPasses(cred) THEN Responded(req, 401)
              ELSE IF ~VerifyAdminPasses(usersCollection, cred)
              THEN Responded([req EXCEPT !.roleLookup = TRUE], 403)
              ELSE [req EXCEPT !.roleLookup = TRUE, !.pc = "count",
                               !.pending = {"users", "products", "orders"}])
        /\ UNCHANGED <<rev, store, stripeIntents>>

\* one estimatedDocumentCount
AdminStatsCount(i, which) ==
    LET req == reqs[i]
        left == req.pending \ {which}
        counted ==
            CASE which = "users" ->
                   [req EXCEPT !.users = Cardinality(usersCollection)]
              [] which = "products" ->
                   [req EXCEPT !.products = Cardinality(MenuCatalog)]
              [] which = "orders" ->
                   [req EXCEPT !.orders =
                             EstimatedDocumentCount(paymentCollection)]
    IN  /\ req.kind = "adminStats" /\ req.pc = "count"
        /\ CountEnabled(rev, req.pending, which)
        /\ reqs' = [reqs EXCEPT ![i] =
              [counted EXCEPT !.pending = left,
                              !.pc = IF left = {} THEN "find" ELSE "count"]]
        /\ UNCHANGED <<rev, store, stripeIntents>>

\* paymentCollection.find().toArray(), the reduce, and the response
AdminStatsFind(i) ==
    LET req == reqs[i]
    IN  /\ req.kind = "adminStats" /\ req.pc = "find"
        /\ reqs' = [reqs EXCEPT ![i] =
              Responded([req EXCEPT !.revenue = SumPrice(paymentCollection, 0)],
                        200)]
        /\ UNCHANGED <<rev, store, stripeIntents>>

\* ---------------------------------------------------------------- GET /order-stats
\* verifyToken, then verifyAdmin's findOne on the users collection
OrderStatsGet(cred) ==
    LET req == NewReq("orderStats", cred, NoBody)
    IN  /\ reqs' = Append(reqs,
              IF ~VerifyTokenPasses(cred) THEN Responded(req, 401)
              ELSE IF ~VerifyAdminPasses(usersCollection, cred)
              THEN Responded([req EXCEPT !.roleLookup = TRUE], 403)
              ELSE [req EXCEPT !.roleLookup = TRUE, !.pc = "aggregate"])
        /\ UNCHANGED <<rev, store, stripeIntents>>

\* the aggregation over "payments" joined with "menu", and the response
OrderStatsAggregate(i) ==
    LET req == reqs[i]
    IN  /\ req.kind = "orderStats" /\ req.pc = "aggregate"
        /\ reqs' = [reqs EXCEPT ![i] =
              Responded([req EXCEPT
                  !.stats = Aggregate(paymentCollection, menuCollection)], 200)]
        /\ UNCHANGED <<rev, store, stripeIntents>>

\* ---------------------------------------------------------------- DELETE /menu/:id
\* verifyToken, verifyAdmin, then deleteOne({_id: new ObjectId(id)}) on the
\* handle menuCollection
DeleteMenu(cred, id) ==
    LET body == [NoBody EXCEPT !.id = id]
        req == NewReq("deleteMenu", cred, body)
        looked == [req EXCEPT !.roleLookup = TRUE]
        hit == {m \in MenuCatalog : m.oid /\ m._id = id}
        left == MenuCatalog \ hit
        rejected == ~VerifyTokenPasses(cred)
                    \/ ~VerifyAdminPasses(usersCollection, cred)
                    \/ ObjectIdThrows(id)
    IN  /\ reqs' = Append(reqs,
              IF ~VerifyTokenPasses(cred) THEN Responded(req, 401)
              ELSE IF ~VerifyAdminPasses(usersCollection, cred)
              THEN Responded(looked, 403)
              ELSE IF ObjectIdThrows(id) THEN Failed(looked, "deleteMenu")
              ELSE Responded([looked EXCEPT !.deletedCount = Cardinality(hit)],
                             200))
        /\ menuCollection' =
              IF rejected \/ rev = "index" THEN menuCollection ELSE left
        /\ menusCollection' =
              IF rejected \/ rev # "index" THEN menusCollection ELSE left
        /\ UNCHANGED <<rev, usersCollection, cartCollection, paymentCollection,
                       stripeIntents>>

\* ---------------------------------------------------------------- specifications
\* Settlement and the cart routes.
Next ==
    \/ /\ Len(reqs) < MaxRequests
       /\ \E t \in CartIdsTypes, c \in CartIdLists, ok \in BOOLEAN :
             PaymentsPost(12345, t, c, <<1, 2>>, ok)
    \/ \E i \in DOMAIN reqs, ok \in BOOLEAN : PaymentsDelete(i, ok)
    \/ /\ Len(reqs) < MaxRequests
       /\ \E id \in PathIds : DeleteCart(id)

Spec == Init /\ [][Next]_vars

\* Settlement next to the payment-intent route.
NextCheckout ==
    \/ /\ Len(reqs) < MaxCheckoutRequests
       /\ \E c \in {"bad", "user@bistro"}, p \in CheckoutPrices,
             ok \in BOOLEAN : CreateCheckoutSession(c, p, ok)
    \/ /\ Len(reqs) < MaxCheckoutRequests
       /\ \E p \in SettlePrices, ok \in BOOLEAN :
             PaymentsPost(p, "array", <<1>>, <<1>>, ok)
    \/ \E i \in DOMAIN reqs, ok \in BOOLEAN : PaymentsDelete(i, ok)

SpecCheckout == InitWith({}) /\ [][NextCheckout]_vars

\* Settlement next to the admin statistics.
NextStats ==
    \/ /\ Len(reqs) < MaxStatsRequests
       /\ \E p \in SettlePrices : PaymentsPost(p, "array", <<1>>, <<1>>, TRUE)
    \/ \E i \in DOMAIN reqs : PaymentsDelete(i, TRUE)
    \/ /\ Len(reqs) < MaxStatsRequests
       /\ \E c \in {"bad", "user@bistro", "admin@bistro"} : AdminStatsGet(c)
    \/ \E i \in DOMAIN reqs, w \in {"users", "products", "orders"} :
          AdminStatsCount(i, w)
    \/ \E i \in DOMAIN reqs : AdminStatsFind(i)

SpecStats == InitWith({}) /\ [][NextStats]_vars

\* Settlement next to the menu catalog and the order statistics.
NextOrders ==
    \/ /\ Len(reqs) < MaxOrdersRequests
       /\ \E m \in OrderItemLists : PaymentsPost(12345, "array", <<1>>, m, TRUE)
    \/ \E i \in DOMAIN reqs : PaymentsDelete(i, TRUE)
    \/ /\ Len(reqs) < MaxOrdersRequests
       /\ \E id \in {0, 1, 3} : DeleteMenu("admin@bistro", id)
    \/ /\ Len(reqs) < MaxOrdersRequests
       /\ OrderStatsGet("admin@bistro")
    \/ \E i \in DOMAIN reqs : OrderStatsAggregate(i)

SpecOrders == InitOrders /\ [][NextOrders]_vars

\* The two statistics routes under every kind of credential.
NextAuth ==
    \/ /\ Len(reqs) < MaxAuthRequests
       /\ PaymentsPost(12345, "array", <<1>>, <<1, 2>>, TRUE)
    \/ \E i \in DOMAIN reqs : PaymentsDelete(i, TRUE)
    \/ /\ Len(reqs) < MaxAuthRequests
       /\ \E c \in AuthCredentials : AdminStatsGet(c)
    \/ \E i \in DOMAIN reqs, w \in {"users", "products", "orders"} :
          AdminStatsCount(i, w)
    \/ \E i \in DOMAIN reqs : AdminStatsFind(i)
    \/ /\ Len(reqs) < MaxAuthRequests
       /\ \E c \in AuthCredentials : OrderStatsGet(c)
    \/ \E i \in DOMAIN reqs : OrderStatsAggregate(i)

SpecAuth == InitWith({}) /\ [][NextAuth]_vars

\* ---------------------------------------------------------------- claims
IsSettle(req) == req.kind = "payments"

\* cartIds is missing, is not a list, or is an empty list
CartIdsMissingOrEmpty(body) ==
    body.cartIdsType # "array" \/ body.cartIds = << >>

\* cartIds is a non-empty list of valid identifiers
CartIdsValid(body) ==
    /\ body.cartIdsType = "array"
    /\ body.cartIds # << >>
    /\ \A k \in Range(body.cartIds) : k >= 1

\* the payment records a request inserted
RecordsOf(req) ==
    {k \in DOMAIN paymentCollection :
        req.insertedId # 0 /\ paymentCollection[k]._id = req.insertedId}

\* C1: a settle request whose cartIds is missing, not a list or empty is
\* answered 400, creates no payment record and removes no cart entry.
C1_InvalidCartIdsRejected ==
    \A i \in DOMAIN reqs :
        IsSettle(reqs[i]) /\ CartIdsMissingOrEmpty(reqs[i].body)
        => /\ reqs[i].pc = "done" /\ reqs[i].status = 400
           /\ RecordsOf(reqs[i]) = {}
           /\ reqs[i].insertedId = 0
           /\ reqs[i].deletedCount = 0

\* C2: a settle request with a non-empty list of valid cartIds (whose
\* insert the store acknowledges) adds exactly one record, holding the
\* request's price, cartIds and menu items; the collection holds one
\* record per insert and nothing else.
C2_ExactlyOneRecord ==
    /\ \A i \in DOMAIN reqs :
          IsSettle(reqs[i]) /\ CartIdsValid(reqs[i].body)
             /\ reqs[i].fault # "insert"
          => /\ Cardinality(RecordsOf(reqs[i])) = 1
             /\ \A k \in RecordsOf(reqs[i]) :
                   /\ paymentCollection[k].price = reqs[i].body.price
                   /\ paymentCollection[k].cartIds = reqs[i].body.cartIds
                   /\ paymentCollection[k].menuItems = reqs[i].body.menuItems
    /\ Len(paymentCollection) =
          Cardinality({i \in DOMAIN reqs : reqs[i].insertedId # 0})

C2_Witness ==
    \E i, j \in DOMAIN reqs :
        /\ i # j
        /\ IsSettle(reqs[i]) /\ reqs[i].status = 200
        /\ IsSettle(reqs[j]) /\ reqs[j].status = 200
        /\ reqs[i].body.cartIds = <<1, 2>>
        /\ Len(paymentCollection) = 2

\* C3: a settle request whose cartIds list holds an element that is no
\* valid identifier is rejected before any store call: no payment record
\* is inserted and no cart entry is deleted.
C3_MalformedIdRejectedBeforeStore ==
    \A i \in DOMAIN reqs :
        /\ IsSettle(reqs[i])
        /\ reqs[i].body.cartIdsType = "array"
        /\ \E k \in Range(reqs[i].body.cartIds) : k < 1
        => /\ RecordsOf(reqs[i]) = {}
           /\ reqs[i].deletedCount = 0

\* C6: whenever a settle request is at its cart cleanup, or has removed a
\* cart entry, its payment record is already in the payment collection.
C6_InsertBeforeCleanup ==
    \A i \in DOMAIN reqs :
        IsSettle(reqs[i]) /\ (reqs[i].pc = "delete" \/ reqs[i].deletedCount > 0)
        => \E k \in DOMAIN paymentCollection :
              /\ paymentCollection[k]._id = reqs[i].insertedId
              /\ paymentCollection[k].cartIds = reqs[i].body.cartIds

C6_Witness ==
    \E i \in DOMAIN reqs :
        /\ IsSettle(reqs[i]) /\ reqs[i].deletedCount = 2
        /\ cartCollection = {}

\* the step in which settle request i gets the answer of its deleteMany
CleanupStep(i) ==
    /\ IsSettle(reqs[i]) /\ reqs[i].pc = "delete"
    /\ reqs'[i].pc # "delete"

\* C7: when a settle request completes successfully, no cart entry whose
\* identifier is in cartIds remains, every other entry is left as it was,
\* and identifiers that match no entry are skipped without an error (the
\* request is answered 200 whenever the store does not fail).
C7_CleanupFrame ==
    [][\A i \in DOMAIN reqs :
          CleanupStep(i)
          => /\ reqs'[i].fault = "none" => reqs'[i].status = 200
             /\ reqs'[i].status = 200
                => /\ \A c \in cartCollection' :
                         c._id \notin Range(reqs[i].body.cartIds)
                   /\ \A c \in cartCollection :
                         c._id \notin Range(reqs[i].body.cartIds)
                         => c \in cartCollection'
                   /\ cartCollection' \subseteq cartCollection]_vars

C7_Witness ==
    \E i \in DOMAIN reqs :
        /\ IsSettle(reqs[i]) /\ reqs[i].status = 200
        /\ reqs[i].body.cartIds = <<1, 3>>
        /\ reqs[i].deletedCount = 1
        /\ cartCollection = {[_id |-> 2, menuId |-> 2]}

\* C8: the deletion count of a successful settle is the number of cart
\* entries that existed right before the cleanup with an identifier in
\* cartIds, each counted once; deleting an entry that is already gone, by
\* settle or by DELETE /carts/:id, is answered without an error, counts 0
\* and leaves the cart collection as it was.
C8_DeletionCount ==
    [][/\ \A i \in DOMAIN reqs :
            CleanupStep(i) /\ reqs'[i].status = 200
            => /\ reqs'[i].deletedCount =
                     Cardinality({c \in cartCollection :
                         \E n \in DOMAIN reqs[i].body.cartIds :
                             reqs[i].body.cartIds[n] = c._id})
               /\ reqs'[i].deletedCount =
                     Cardinality(cartCollection) - Cardinality(cartCollection')
               /\ (\A c \in cartCollection :
                       c._id \notin Range(reqs[i].body.cartIds))
                  => reqs'[i].deletedCount = 0 /\ UNCHANGED cartCollection
       /\ Len(reqs') > Len(reqs) /\ reqs'[Len(reqs')].kind = "deleteCart"
             /\ reqs'[Len(reqs')].body.id >= 1
          => LET req == reqs'[Len(reqs')]
                 gone == \A c \in cartCollection : c._id # req.body.id
             IN  /\ req.status = 200
                 /\ req.deletedCount =
                       Cardinality(cartCollection) - Cardinality(cartCollection')
                 /\ req.deletedCount = IF gone THEN 0 ELSE 1
                 /\ gone => UNCHANGED cartCollection]_vars

C8_Witness ==
    \E i, j \in DOMAIN reqs :
        /\ i < j
        /\ IsSettle(reqs[i]) /\ reqs[i].status = 200
        /\ reqs[i].body.cartIds = <<1, 1>> /\ reqs[i].deletedCount = 1
        /\ reqs[j].kind = "deleteCart" /\ reqs[j].body.id = 1
        /\ reqs[j].status = 200 /\ reqs[j].deletedCount = 0

\* settle request j arrived after settle request i, with the same
\* arguments, had been answered 200
Resubmitted(rs, i, j) ==
    /\ i \in rs[j].after
    /\ IsSettle(rs[i]) /\ IsSettle(rs[j])
    /\ rs[i].body = rs[j].body
    /\ CartIdsValid(rs[j].body)
    /\ rs[i].status = 200

\* C9: settle is not idempotent.  Of two sequential settle requests with
\* identical valid arguments the second is accepted like the first: (the
\* store not failing) it is answered 200, the two leave two distinct
\* payment records, and the second's deletion pass removes no cart entry
\* and leaves the cart collection as it was.
C9_NotIdempotent ==
    [][\A i, j \in DOMAIN reqs' :
          Resubmitted(reqs', i, j)
          => /\ reqs'[j].fault # "insert"
                => /\ reqs'[j].insertedId # reqs'[i].insertedId
                   /\ RecordsOf(reqs[i])' # {}
                   /\ RecordsOf(reqs[j])' # {}
                   /\ RecordsOf(reqs[i])' \cap RecordsOf(reqs[j])' = {}
             /\ reqs'[j].fault = "none" /\ reqs'[j].pc # "delete"
                => reqs'[j].status = 200 /\ reqs'[j].deletedCount = 0
             /\ j \in DOMAIN reqs /\ CleanupStep(j)
                => UNCHANGED cartCollection]_vars

C9_Witness ==
    \E i, j \in DOMAIN reqs :
        /\ Resubmitted(reqs, i, j)
        /\ reqs[i].deletedCount = 2
        /\ reqs[j].status = 200 /\ reqs[j].deletedCount = 0
        /\ Len(paymentCollection) = 2

\* C4: a payment record is persisted only after the payment gateway
\* adapter has confirmed a payment for that settlement: every stored
\* record has a payment intent of its amount.
C4_RecordOnlyAfterGatewayConfirmation ==
    \A k \in DOMAIN paymentCollection :
        \E n \in DOMAIN stripeIntents :
            stripeIntents[n] = MinorUnits(rev, paymentCollection[k].price)

\* C5: the amount passed to the payment gateway adapter is price * 100
\* rounded half to nearest: floor((t + 5) / 10) for a price of t
\* thousandths, so 1235 for 12.345.
C5_RoundHalfToNearest ==
    \A i \in DOMAIN reqs :
        reqs[i].kind = "checkout" /\ VerifyTokenPasses(reqs[i].cred)
        => reqs[i].amount = (reqs[i].body.price + 5) \div 10

RECURSIVE PriceTotal(_)
\* the sum of price over the first n payment records
PriceTotal(n) ==
    IF n = 0 THEN 0 ELSE PriceTotal(n - 1) + paymentCollection[n].price

ItemOf(catalog, id) == CHOOSE m \in catalog : m._id = id

\* the (record, position) pairs of menuItems whose item is in the catalog
CatalogRows(payments, catalog) ==
    {<<k, n>> \in (DOMAIN payments) \X (1..2) :
        /\ n \in DOMAIN payments[k].menuItems
        /\ \E m \in catalog : m._id = payments[k].menuItems[n]}

RowItem(payments, catalog, row) ==
    ItemOf(catalog, payments[row[1]].menuItems[row[2]])

RECURSIVE RowsRevenue(_, _, _)
RowsRevenue(payments, catalog, rows) ==
    IF rows = {} THEN 0
    ELSE LET r == CHOOSE x \in rows : TRUE
         IN  RowItem(payments, catalog, r).price
             + RowsRevenue(payments, catalog, rows \ {r})

RowsOfCategory(payments, catalog, c) ==
    {r \in CatalogRows(payments, catalog) :
        RowItem(payments, catalog, r).category = c}

\* one entry per category that has a row: the number of its rows and the
\* sum of the current prices of their items
Breakdown(payments, catalog) ==
    {[category |-> c,
      quantity |-> Cardinality(RowsOfCategory(payments, catalog, c)),
      revenue |-> RowsRevenue(payments, catalog,
                              RowsOfCategory(payments, catalog, c))] :
     c \in {RowItem(payments, catalog, r).category :
            r \in CatalogRows(payments, catalog)}}

\* C11: the category breakdown answered by GET /order-stats holds, for each
\* category, exactly one entry whose quantity is the number of
\* (record, menuItemId) rows whose item is in the menu catalog with that
\* category and whose revenue is the sum of those items' current prices, and
\* no entry for a category without such a row.
C11_CategoryBreakdown ==
    [][\A i \in DOMAIN reqs :
          OrderStatsAggregate(i) =>
              reqs'[i].stats = Breakdown(paymentCollection, MenuCatalog)]_vars

\* the documents of a collection that a menuItems element, a string, can equal
StringKeyed(menu) == {m \in menu : ~m.oid}

\* C12: the expansion of menuItems is one-to-many without deduplication: an
\* identifier that occurs k times in one record contributes k rows, and one
\* that occurs in several records contributes one row per occurrence, so
\* each category's quantity is the number of occurrences of its items.
C12_OneRowPerOccurrence ==
    [][\A i \in DOMAIN reqs :
          OrderStatsAggregate(i) =>
              \A e \in reqs'[i].stats :
                  e.quantity =
                      Cardinality(RowsOfCategory(paymentCollection,
                                                 StringKeyed(menuCollection),
                                                 e.category))]_vars

\* a DELETE /menu/:id that removed an item has been answered
MenuItemDeleted ==
    \E j \in DOMAIN reqs :
        /\ reqs[j].kind = "deleteMenu"
        /\ reqs[j].status = 200
        /\ reqs[j].deletedCount = 1

\* C13: after DELETE /menu/:id has removed an item that records refer to,
\* the breakdown still completes, and it is the breakdown over the catalog
\* as it now stands: rows of the deleted item are left out and rows of the
\* items that still exist are counted.
C13_BreakdownAfterMenuDelete ==
    [][\A i \in DOMAIN reqs :
          (OrderStatsAggregate(i) /\ MenuItemDeleted) =>
              /\ reqs'[i].status = 200
              /\ reqs'[i].stats = Aggregate(paymentCollection, MenuCatalog)]_vars

\* ---------------------------------------------------------------- access control
IsStats(req) == req.kind \in {"adminStats", "orderStats"}

\* the route handler behind the two middlewares has started
HandlerRan(req) ==
    req.pc \in {"count", "find", "aggregate"} \/ req.status = 200

NoStatistics(req) ==
    /\ req.stats = {}
    /\ req.users = 0 /\ req.products = 0 /\ req.orders = 0 /\ req.revenue = 0

StoredAdmin(email) ==
    \E u \in usersCollection : u.email = email /\ u.role = "admin"

\* C14: the handlers of /admin-stats and /order-stats run only for a
\* verified credential whose email is that of a stored user with role
\* "admin"; a missing or invalid credential is answered 401 before any role
\* lookup, a verified credential of a non-admin or of no stored user is
\* answered 403, and in both cases no statistics are returned.
C14_StatsOnlyForAdmins ==
    \A i \in DOMAIN reqs :
        IsStats(reqs[i]) =>
            /\ HandlerRan(reqs[i]) =>
                  VerifyTokenPasses(reqs[i].cred) /\ StoredAdmin(reqs[i].cred)
            /\ ~VerifyTokenPasses(reqs[i].cred) =>
                  /\ reqs[i].status = 401 /\ reqs[i].pc = "done"
                  /\ ~reqs[i].roleLookup
                  /\ NoStatistics(reqs[i])
            /\ (VerifyTokenPasses(reqs[i].cred) /\ ~StoredAdmin(reqs[i].cred)) =>
                  /\ reqs[i].status = 403 /\ reqs[i].pc = "done"
                  /\ reqs[i].roleLookup
                  /\ NoStatistics(reqs[i])

C14_Witness ==
    \E i, j, k \in DOMAIN reqs :
        /\ reqs[i].kind = "orderStats" /\ reqs[i].cred = "none"
        /\ reqs[i].status = 401
        /\ reqs[j].kind = "adminStats" /\ reqs[j].cred = "ghost@bistro"
        /\ reqs[j].status = 403
        /\ reqs[k].kind = "adminStats" /\ reqs[k].cred = "admin@bistro"
        /\ reqs[k].status = 200 /\ reqs[k].users = 2

\* ---------------------------------------------------------------- concurrent settles
\* two settle requests with valid, overlapping cartIds, the second received
\* before the first was answered
Concurrent(i, j) ==
    /\ i < j /\ i \notin reqs[j].after
    /\ IsSettle(reqs[i]) /\ IsSettle(reqs[j])
    /\ CartIdsValid(reqs[i].body) /\ CartIdsValid(reqs[j].body)
    /\ Range(reqs[i].body.cartIds) \cap Range(reqs[j].body.cartIds) # {}

\* what a request's deletion count was before a step
CountBefore(i) == IF i \in DOMAIN reqs THEN reqs[i].deletedCount ELSE 0

\* C15: of two concurrent settle requests with overlapping valid cartIds,
\* when the store does not fail, both complete without an error and neither
\* can block, each creates its own record, no cart entry either refers to
\* remains at the end, and every removed entry is counted in the deletion
\* count of exactly one request.
C15_ConcurrentSettles ==
    /\ [](\A i, j \in DOMAIN reqs :
            Concurrent(i, j) =>
                /\ \A k \in {i, j} :
                      reqs[k].fault = "none" =>
                          /\ reqs[k].pc \in {"delete", "done"}
                          /\ reqs[k].pc = "delete" => ENABLED PaymentsDelete(k, TRUE)
                          /\ reqs[k].pc = "done" => reqs[k].status = 200
                          /\ Cardinality(RecordsOf(reqs[k])) = 1
                /\ (reqs[i].status = 200 /\ reqs[j].status = 200) =>
                      /\ RecordsOf(reqs[i]) \cap RecordsOf(reqs[j]) = {}
                      /\ \A c \in cartCollection :
                            c._id \notin Range(reqs[i].body.cartIds)
                                         \cup Range(reqs[j].body.cartIds))
    /\ [][LET removed == cartCollection \ cartCollection'
              counted == {i \in DOMAIN reqs' :
                             reqs'[i].deletedCount # CountBefore(i)}
          IN  /\ cartCollection' \subseteq cartCollection
              /\ removed = {} => counted = {}
              /\ removed # {} =>
                    \E i \in DOMAIN reqs' :
                        /\ counted = {i}
                        /\ reqs'[i].deletedCount - CountBefore(i)
                              = Cardinality(removed)]_vars

C15_Witness ==
    \E i, j \in DOMAIN reqs :
        /\ Concurrent(i, j)
        /\ reqs[i].body.cartIds = <<1, 2>> /\ reqs[j].body.cartIds = <<1>>
        /\ reqs[i].status = 200 /\ reqs[j].status = 200
        /\ reqs[i].deletedCount = 1 /\ reqs[j].deletedCount = 1

\* ---------------------------------------------------------------- failures
\* C16: when the insertion of a settle request succeeds and the deletion
\* fails, the payment record remains (there is no rollback), the cart
\* entries remain, and the failure is answered with HTTP 500, not with a
\* success and not with silence.
C16_DeleteFailureSurfaced ==
    [][\A i \in DOMAIN reqs :
          (CleanupStep(i) /\ reqs'[i].fault = "delete") =>
              /\ Cardinality({k \in DOMAIN paymentCollection' :
                     paymentCollection'[k]._id = reqs'[i].insertedId}) = 1
              /\ cartCollection' = cartCollection
              /\ reqs'[i].pc = "done"
              /\ reqs'[i].status = 500]_vars

\* C17: every POST /create-checkout-session and POST /payments request is
\* answered, exactly once; when the payment adapter or the store fails, the
\* answer is 500 with a message, and the failed call is not retried.  A
\* request at "hung" has left its handler by an uncaught rejection and no
\* step of the server answers it any more.
C17_AlwaysAnswered ==
    \A i \in DOMAIN reqs :
        reqs[i].kind \in {"checkout", "payments"} =>
            /\ reqs[i].pc # "hung"
            /\ reqs[i].fault # "none" =>
                  reqs[i].pc = "done" /\ reqs[i].status = 500

\* ---------------------------------------------------------------- admin statistics
\* the step of GET /admin-stats that counts the payment records
OrdersCountStep(i) ==
    /\ reqs[i].kind = "adminStats" /\ reqs[i].pc = "count"
    /\ "orders" \in reqs[i].pending
    /\ "orders" \notin reqs'[i].pending

\* the settle requests whose record was inserted after request i counted
InsertedAfterCount(i) ==
    {j \in DOMAIN reqs : IsSettle(reqs[j]) /\ reqs[j].insertedId > reqs[i].orders}

\* C18 as stated: in every answer of GET /admin-stats, also next to
\* concurrent settle requests, orders is the number of payment records whose
\* prices were summed into revenue.
C18_CountMatchesRevenue ==
    [][\A i \in DOMAIN reqs :
          AdminStatsFind(i) => reqs'[i].orders = Len(paymentCollection)]_vars

\* C18 amended: orders is the number of payment records stored when the
\* count was taken; it is at most the number of records summed into
\* revenue, short of it by the records that settle requests inserted between
\* the count and the read, and equal to it when there was none.
C18_CountIsOfEarlierState ==
    [][\A i \in DOMAIN reqs :
          /\ OrdersCountStep(i) => reqs'[i].orders = Len(paymentCollection)
          /\ AdminStatsFind(i) =>
                /\ reqs'[i].orders <= Len(paymentCollection)
                /\ Len(paymentCollection) - reqs'[i].orders
                      = Cardinality(InsertedAfterCount(i))
                /\ InsertedAfterCount(i) = {}
                      => reqs'[i].orders = Len(paymentCollection)]_vars

C18_Witness ==
    \E i \in DOMAIN reqs :
        /\ reqs[i].kind = "adminStats" /\ reqs[i].status = 200
        /\ reqs[i].orders = 1
        /\ Len(paymentCollection) = 2
        /\ reqs[i].revenue = SumPrice(paymentCollection, 0)
        /\ \E j \in DOMAIN reqs : j > i /\ reqs[j].insertedId = 2
====
